---- MODULE Spec2Model ----
(***************************************************************************)
(* The spaceport-bar NPC registry of src/src/npc.c as a state machine.     *)
(*                                                                         *)
(* The registry is the pair of file-scope statics npc_array (a growable    *)
(* array of NPC_t, NULL until the first successful add and again after     *)
(* npc_freeAll) and npc_array_idgen.  The collaborators it reads are the   *)
(* global `landed' and the player's mission slots player_missions[].       *)
(* Every public function that writes is one action; the static helpers    *)
(* and the read-only accessors are operators over a registry value         *)
(* [array, alloc, idgen].                                                  *)
(*                                                                         *)
(* Each action also records what the caller observes: the name of the      *)
(* operation (op), its result (ret), the ids returned by the npc_add calls *)
(* it made (issued) and the calls it made to its collaborators, in order   *)
(* (calls).                                                                *)
(*                                                                         *)
(* Spec is the registry driven by sequences of its public functions.       *)
(* SpecReentrant adds npc_approach with a collaborator (mission_accept,    *)
(* misn_run, event_run) that calls back into the registry before it        *)
(* returns.                                                                *)
(***************************************************************************)
EXTENDS Integers, Sequences, FiniteSets, TLC

VARIABLES
    landed,            \* land.h global: the player is landed
    player_missions,   \* slot -> TRUE when player_missions[slot].data != NULL
    npc_array,         \* the elements of npc_array (<<>> when it is NULL)
    npc_array_alloc,   \* npc_array != NULL
    npc_array_idgen,   \* the id generator
    op,                \* the last registry operation
    ret,               \* its result (0 for void)
    fault,             \* the operation ran into undefined behaviour
    issued,            \* the ids returned by npc_add during the operation
    calls              \* the collaborator calls of the operation, in order

vars == <<landed, player_missions, npc_array, npc_array_alloc, npc_array_idgen,
          op, ret, fault, issued, calls>>

(***************************************************************************)
(* Bounds of the model.                                                    *)
(***************************************************************************)
\* ids are issued up to MaxId (npc_array_idgen is an unsigned int in the code)
MaxId == 3
\* number of player mission slots
MISSION_MAX == 1

(***************************************************************************)
(* NPCtype.                                                                *)
(***************************************************************************)
NPC_TYPE_NULL == 0
NPC_TYPE_GIVER == 1
NPC_TYPE_MISSION == 2
NPC_TYPE_EVENT == 3

\* the null pointer, for the char* and glTexture* results
NULL == "NULL"

(***************************************************************************)
(* Inputs.                                                                 *)
(***************************************************************************)
Priorities == {1, 3, 5}
\* the priorities given to npc_add_mission and npc_add_event
RefPriorities == {3}
\* the event ids and mission ids a caller may name
EventIds == {7, 8}
MissionIds == {1, 2}
\* the event and the player mission that bar NPCs are added for
BarEvents == {7}
BarMissions == {1}
Funcs == {"foo"}
Names == {"Barman"}
Portraits == {"barman.png"}
Descs == {"A barman."}
\* ids a caller may pass to the removals: every id issued and one never issued
Ids == 1..(MaxId + 1)
\* indices a caller may pass: -1, every position, and past the end
Indices == (-1)..MaxId
\* what mission_accept may return: error, accepted, finished, deleted, and a
\* value it does not document
AcceptOutcomes == {-1, 0, 1, 2, 3}

\* A Mission as missions_genList returns it: the fields npc_add_giver reads.
GenMission(p) ==
    [id |-> 0, priority |-> p,
     npc |-> IF p = 1 THEN "Trader" ELSE IF p = 3 THEN "Pilot" ELSE "Smuggler",
     portrait |-> IF p = 1 THEN "trader.png" ELSE IF p = 3 THEN "pilot.png" ELSE "smuggler.png",
     desc |-> IF p = 1 THEN "A trader." ELSE IF p = 3 THEN "A pilot." ELSE "A smuggler."]

\* A Mission of the player, as a Mission* handed to npc_add_mission/npc_rm_mission.
PlayerMission(m) == [id |-> m]

RECURSIVE SeqsUpTo(_, _)
SeqsUpTo(S, n) ==
    IF n = 0 THEN {<<>>}
    ELSE LET shorter == SeqsUpTo(S, n - 1)
         IN  shorter \cup {Append(s, x) : s \in {t \in shorter : Len(t) = n - 1}, x \in S}

\* the lists missions_genList may return
MissionLists == SeqsUpTo({GenMission(p) : p \in Priorities}, MaxId)

(***************************************************************************)
(* The log of collaborator calls.                                          *)
(***************************************************************************)
Call(fn, id, what) == [fn |-> fn, id |-> id, what |-> what]

(***************************************************************************)
(* The registry value the static helpers work on.                          *)
(***************************************************************************)
Reg == [array |-> npc_array, alloc |-> npc_array_alloc, idgen |-> npc_array_idgen]

\* array_size(npc_array).  On a NULL array the macro reads the header in
\* front of address 0: undefined behaviour, which the guarded callers
\* (npc_getArraySize, npc_getNameArray, npc_sort, npc_clear) avoid.  The
\* outcomes are a fault or whatever number is read.
GarbageSizes == {0, 1}
array_size(reg) ==
    IF reg.alloc THEN {[fault |-> FALSE, n |-> Len(reg.array)]}
    ELSE {[fault |-> TRUE, n |-> 0]} \cup {[fault |-> FALSE, n |-> g] : g \in GarbageSizes}

\* array_erase( &npc_array, &npc[0], &npc[1] ): drops the element at p (1-based)
array_erase(arr, p) ==
    [k \in 1..(Len(arr) - 1) |-> IF k < p THEN arr[k] ELSE arr[k + 1]]

(***************************************************************************)
(* npc_add: appends a copy of npc with a fresh id; 0 when not landed.      *)
(***************************************************************************)
\* variant: the landed check is missing
npc_add_unchecked(reg, npc, isLanded) ==
    LET id == reg.idgen + 1
    IN  [reg |-> [array |-> Append(reg.array, [npc EXCEPT !.id = id]),
                  alloc |-> TRUE,
                  idgen |-> id],
         id |-> id]

\* variant: the id is taken from the array size instead of the generator
npc_add_sizeid(reg, npc, isLanded) ==
    IF ~isLanded
    THEN [reg |-> reg, id |-> 0]
    ELSE LET id == Len(reg.array) + 1
         IN  [reg |-> [array |-> Append(reg.array, [npc EXCEPT !.id = id]),
                       alloc |-> TRUE,
                       idgen |-> IF id > reg.idgen THEN id ELSE reg.idgen],
              id |-> id]

npc_add(reg, npc, isLanded) ==
    IF ~isLanded
    THEN [reg |-> reg, id |-> 0]
    ELSE LET id == reg.idgen + 1
         IN  [reg |-> [array |-> Append(reg.array, [npc EXCEPT !.id = id]),
                       alloc |-> TRUE,
                       idgen |-> id],
              id |-> id]

\* The NPC_t the three adders fill in (id is set by npc_add).
GiverNpc(misn) ==
    [id |-> 0, type |-> NPC_TYPE_GIVER, priority |-> misn.priority,
     name |-> misn.npc, portrait |-> misn.portrait, desc |-> misn.desc,
     u |-> [g |-> misn]]

MissionNpc(misn, func, name, priority, portrait, desc) ==
    [id |-> 0, type |-> NPC_TYPE_MISSION, priority |-> priority,
     name |-> name, portrait |-> portrait, desc |-> desc,
     u |-> [m |-> [misn |-> misn, func |-> func]]]

\* variant: the type is not set
EventNpc_notype(evt, func, name, priority, portrait, desc) ==
    [id |-> 0, type |-> NPC_TYPE_NULL, priority |-> priority,
     name |-> name, portrait |-> portrait, desc |-> desc,
     u |-> [e |-> [id |-> evt, func |-> func]]]

EventNpc(evt, func, name, priority, portrait, desc) ==
    [id |-> 0, type |-> NPC_TYPE_EVENT, priority |-> priority,
     name |-> name, portrait |-> portrait, desc |-> desc,
     u |-> [e |-> [id |-> evt, func |-> func]]]

GiverAllocs ==
    <<Call("strdup", 0, "name"), Call("gl_dupTexture", 0, "portrait"),
      Call("strdup", 0, "desc")>>

RefAllocs ==
    <<Call("strdup", 0, "name"), Call("gl_newImage", 0, "portrait"),
      Call("strdup", 0, "desc"), Call("strdup", 0, "func")>>

npc_add_giver(reg, misn, isLanded) == npc_add(reg, GiverNpc(misn), isLanded)

(***************************************************************************)
(* npc_free: releases what the record owns.                                *)
(***************************************************************************)
npc_free(npc) ==
    <<Call("free", npc.id, "name"), Call("gl_freeTexture", npc.id, "portrait"),
      Call("free", npc.id, "desc")>>
    \o (IF npc.type = NPC_TYPE_GIVER THEN <<Call("mission_cleanup", npc.id, "u.g")>>
        ELSE IF npc.type = NPC_TYPE_MISSION THEN <<Call("free", npc.id, "u.m.func")>>
        ELSE IF npc.type = NPC_TYPE_EVENT THEN <<Call("free", npc.id, "u.e.func")>>
        ELSE <<Call("WARN", npc.id, "Freeing NPC of invalid type.")>>)

\* variant: the record is freed but stays in the array
npc_rm_keep(reg, p) == [reg |-> reg, log |-> npc_free(reg.array[p])]

\* npc_rm: frees the record at p and erases it
npc_rm(reg, p) ==
    [reg |-> [reg EXCEPT !.array = array_erase(reg.array, p)],
     log |-> npc_free(reg.array[p])]

\* npc_arrayGet on an array of n elements: the position of the first record
\* with that id, 0 for NULL
npc_arrayGet(arr, n, id) ==
    LET hits == {k \in 1..n : arr[k].id = id}
    IN  IF hits = {} THEN 0 ELSE CHOOSE k \in hits : \A j \in hits : k <= j

(***************************************************************************)
(* npc_compare and npc_sort.  qsort leaves the order of records that       *)
(* compare equal unspecified: every sorted arrangement is a result.        *)
(***************************************************************************)
\* variant: the signs of the comparison are swapped
npc_compare_swapped(npc1, npc2) ==
    IF npc1.priority > npc2.priority THEN -1
    ELSE IF npc1.priority < npc2.priority THEN 1
    ELSE 0

npc_compare(npc1, npc2) ==
    IF npc1.priority > npc2.priority THEN 1
    ELSE IF npc1.priority < npc2.priority THEN -1
    ELSE 0

\* the positions in K whose record no other record of K sorts before
Firsts(arr, K) == {k \in K : \A j \in K : npc_compare(arr[k], arr[j]) <= 0}

RECURSIVE Arrangements(_, _)
Arrangements(arr, K) ==
    IF K = {} THEN {<<>>}
    ELSE UNION {{<<arr[k]>> \o t : t \in Arrangements(arr, K \ {k})} : k \in Firsts(arr, K)}

\* qsort( npc_array, array_size(npc_array), sizeof(NPC_t), npc_compare )
qsort(arr) == Arrangements(arr, 1..Len(arr))

npc_sort(reg) ==
    IF reg.alloc THEN {[reg EXCEPT !.array = s] : s \in qsort(reg.array)}
    ELSE {reg}

(***************************************************************************)
(* What an action leaves behind.                                           *)
(***************************************************************************)
Running == ~fault

Observe(name, r, ids, log) ==
    /\ op' = name
    /\ ret' = r
    /\ fault' = FALSE
    /\ issued' = ids
    /\ calls' = log

Store(reg) ==
    /\ npc_array' = reg.array
    /\ npc_array_alloc' = reg.alloc
    /\ npc_array_idgen' = reg.idgen

\* undefined behaviour ended the operation: nothing is returned
Fault(name) ==
    /\ UNCHANGED <<npc_array, npc_array_alloc, npc_array_idgen>>
    /\ op' = name
    /\ ret' = 0
    /\ fault' = TRUE
    /\ issued' = <<>>
    /\ calls' = <<>>

\* What a function leaves on its return: the registry, the result, the ids
\* its npc_add calls returned and the calls it made; or undefined behaviour.
Done(reg, r, ids, log) ==
    [fault |-> FALSE, reg |-> reg, ret |-> r, ids |-> ids, log |-> log]
Undefined(reg) ==
    [fault |-> TRUE, reg |-> reg, ret |-> 0, ids |-> <<>>, log |-> <<>>]

Apply(name, o) ==
    IF o.fault THEN Fault(name)
    ELSE Store(o.reg) /\ Observe(name, o.ret, o.ids, o.log)

(***************************************************************************)
(* The adders.                                                             *)
(***************************************************************************)
npc_add_mission(misn, func, name, priority, portrait, desc) ==
    /\ Running
    /\ npc_array_idgen < MaxId
    /\ LET r == npc_add(Reg, MissionNpc(misn, func, name, priority, portrait, desc), landed)
       IN  /\ Store(r.reg)
           /\ Observe("npc_add_mission", r.id, <<r.id>>, RefAllocs)
    /\ UNCHANGED <<landed, player_missions>>

npc_add_event(evt, func, name, priority, portrait, desc) ==
    /\ Running
    /\ npc_array_idgen < MaxId
    /\ LET r == npc_add(Reg, EventNpc(evt, func, name, priority, portrait, desc), landed)
       IN  /\ Store(r.reg)
           /\ Observe("npc_add_event", r.id, <<r.id>>, RefAllocs)
    /\ UNCHANGED <<landed, player_missions>>

(***************************************************************************)
(* The removals.                                                           *)
(***************************************************************************)
\* npc_rm_event( id, evt ) on the registry reg: its possible outcomes
npc_rm_event_on(reg, id, evt) ==
    {IF sz.fault \/ (~reg.alloc /\ sz.n > 0)
     THEN Undefined(reg)
     ELSE LET p == npc_arrayGet(reg.array, sz.n, id)
          IN  IF p = 0
              THEN Done(reg, -1, <<>>, <<>>)
              ELSE IF reg.array[p].type # NPC_TYPE_EVENT
              THEN Done(reg, -1, <<>>, <<>>)
              ELSE IF reg.array[p].u.e.id # evt
              THEN Done(reg, -1, <<>>, <<>>)
              ELSE LET r == npc_rm(reg, p)
                   IN  Done(r.reg, 0, <<>>, r.log) : sz \in array_size(reg)}

npc_rm_event(id, evt) ==
    /\ Running
    /\ \E o \in npc_rm_event_on(Reg, id, evt) : Apply("npc_rm_event", o)
    /\ UNCHANGED <<landed, player_missions>>

\* npc_rm_mission( id, misn ) on the registry reg: its possible outcomes
npc_rm_mission_on(reg, id, misn) ==
    {IF sz.fault \/ (~reg.alloc /\ sz.n > 0)
     THEN Undefined(reg)
     ELSE LET p == npc_arrayGet(reg.array, sz.n, id)
          IN  IF p = 0
              THEN Done(reg, -1, <<>>, <<>>)
              ELSE IF reg.array[p].type # NPC_TYPE_MISSION
              THEN Done(reg, -1, <<>>, <<>>)
              ELSE IF misn.id # reg.array[p].u.m.misn.id
              THEN Done(reg, -1, <<>>, <<>>)
              ELSE LET r == npc_rm(reg, p)
                   IN  Done(r.reg, 0, <<>>, r.log) : sz \in array_size(reg)}

npc_rm_mission(id, misn) ==
    /\ Running
    /\ \E o \in npc_rm_mission_on(Reg, id, misn) : Apply("npc_rm_mission", o)
    /\ UNCHANGED <<landed, player_missions>>

(***************************************************************************)
(* npc_generate: one giver per mission of missions_genList, then the sort. *)
(***************************************************************************)
\* variant: the loop stops one mission early (i<nmissions-1)
RECURSIVE AddGivers_skiplast(_, _, _, _)
AddGivers_skiplast(acc, missions, i, isLanded) ==
    IF i >= Len(missions) THEN acc
    ELSE LET r == npc_add_giver(acc.reg, missions[i], isLanded)
         IN  AddGivers_skiplast([reg |-> r.reg, ids |-> Append(acc.ids, r.id),
                                 log |-> acc.log \o GiverAllocs],
                                missions, i + 1, isLanded)

RECURSIVE AddGivers(_, _, _, _)
AddGivers(acc, missions, i, isLanded) ==
    IF i > Len(missions) THEN acc
    ELSE LET r == npc_add_giver(acc.reg, missions[i], isLanded)
         IN  AddGivers([reg |-> r.reg, ids |-> Append(acc.ids, r.id),
                        log |-> acc.log \o GiverAllocs],
                       missions, i + 1, isLanded)

\* npc_generate on the registry reg, missions_genList returning missions
npc_generate_on(reg, missions, isLanded) ==
    LET added == AddGivers([reg |-> reg, ids |-> <<>>,
                            log |-> <<Call("missions_genList", Len(missions), "MIS_AVAIL_BAR")>>],
                           missions, 1, isLanded)
    IN  {Done(sorted, 0, added.ids, added.log) : sorted \in npc_sort(added.reg)}

npc_generate(missions) ==
    /\ Running
    /\ npc_array_idgen + Len(missions) <= MaxId
    /\ \E o \in npc_generate_on(Reg, missions, landed) : Apply("npc_generate", o)
    /\ UNCHANGED <<landed, player_missions>>

(***************************************************************************)
(* npc_clear and npc_freeAll.                                              *)
(***************************************************************************)
RECURSIVE FreeEach(_, _)
FreeEach(arr, i) ==
    IF i > Len(arr) THEN <<>> ELSE npc_free(arr[i]) \o FreeEach(arr, i + 1)

\* variant: the records are freed but the array is not resized to 0
Cleared_noresize(reg) ==
    IF ~reg.alloc THEN [reg |-> reg, log |-> <<>>]
    ELSE [reg |-> reg, log |-> FreeEach(reg.array, 1)]

\* the registry and the calls npc_clear leaves
Cleared(reg) ==
    IF ~reg.alloc THEN [reg |-> reg, log |-> <<>>]
    ELSE [reg |-> [reg EXCEPT !.array = <<>>], log |-> FreeEach(reg.array, 1)]

npc_clear ==
    /\ Running
    /\ LET r == Cleared(Reg)
       IN  Store(r.reg) /\ Observe("npc_clear", 0, <<>>, r.log)
    /\ UNCHANGED <<landed, player_missions>>

\* variant: the array is freed but npc_array is not set to NULL
npc_freeAll_keep ==
    /\ Running
    /\ LET r == Cleared(Reg)
       IN  /\ Store(r.reg)
           /\ Observe("npc_freeAll", 0, <<>>,
                      IF r.reg.alloc THEN Append(r.log, Call("array_free", 0, "npc_array"))
                      ELSE r.log)
    /\ UNCHANGED <<landed, player_missions>>

npc_freeAll ==
    /\ Running
    /\ LET r == Cleared(Reg)
       IN  /\ Store([r.reg EXCEPT !.alloc = FALSE])
           /\ Observe("npc_freeAll", 0, <<>>,
                      IF r.reg.alloc THEN Append(r.log, Call("array_free", 0, "npc_array"))
                      ELSE r.log)
    /\ UNCHANGED <<landed, player_missions>>

(***************************************************************************)
(* The read accessors: functions of the registry that write nothing.      *)
(***************************************************************************)
npc_getArraySize(reg) == IF ~reg.alloc THEN 0 ELSE Len(reg.array)

MIN(a, b) == IF a < b THEN a ELSE b

\* variant: MIN(n,array_size(npc_array)) is returned instead of the loop counter
Filled_unfloored(reg, n) == MIN(n, Len(reg.array))

\* the number of entries the loop i<MIN(n,array_size(npc_array)) writes
Filled(reg, n) == IF MIN(n, Len(reg.array)) > 0 THEN MIN(n, Len(reg.array)) ELSE 0

\* ret: the count returned; buf: the entries written to names[]; log: the calls
npc_getNameArray(reg, n) ==
    IF ~reg.alloc THEN [ret |-> 0, buf |-> <<>>, log |-> <<>>]
    ELSE [ret |-> Filled(reg, n),
          buf |-> [k \in 1..Filled(reg, n) |-> reg.array[k].name],
          log |-> [k \in 1..Filled(reg, n) |-> Call("strdup", reg.array[k].id, "name")]]

npc_getTextureArray(reg, n) ==
    IF ~reg.alloc THEN [ret |-> 0, buf |-> <<>>, log |-> <<>>]
    ELSE [ret |-> Filled(reg, n),
          buf |-> [k \in 1..Filled(reg, n) |-> reg.array[k].portrait],
          log |-> <<>>]

\* The bounds check shared by npc_getName, npc_getTexture, npc_getDesc and
\* npc_approach: (i<0) || (i>=array_size(npc_array)), then npc_array[i].
\* "null": out of bounds; "fault": undefined behaviour; "elem": npc_array[i].
InBounds(reg, i) ==
    IF i < 0 THEN {"null"}
    ELSE {IF sz.fault THEN "fault"
          ELSE IF i >= sz.n THEN "null"
          ELSE IF ~reg.alloc THEN "fault"
          ELSE "elem" : sz \in array_size(reg)}

\* what a pointer-returning accessor can do: fault, or return ptr
Returns(ptr) == [fault |-> FALSE, ptr |-> ptr]
Faults == [fault |-> TRUE, ptr |-> NULL]

npc_getName(reg, i) ==
    {IF b = "fault" THEN Faults
     ELSE IF b = "null" THEN Returns(NULL)
     ELSE Returns(reg.array[i + 1].name) : b \in InBounds(reg, i)}

npc_getTexture(reg, i) ==
    {IF b = "fault" THEN Faults
     ELSE IF b = "null" THEN Returns(NULL)
     ELSE Returns(reg.array[i + 1].portrait) : b \in InBounds(reg, i)}

npc_getDesc(reg, i) ==
    {IF b = "fault" THEN Faults
     ELSE IF b = "null" THEN Returns(NULL)
     ELSE Returns(reg.array[i + 1].desc) : b \in InBounds(reg, i)}

(***************************************************************************)
(* npc_approach.                                                           *)
(***************************************************************************)
\* variant: the loop's result is compared with > instead of >=, so a full
\* table is taken to have its last slot free
FirstFreeSlot_last(pm) ==
    IF \A s \in 1..MISSION_MAX : pm[s] THEN MISSION_MAX
    ELSE CHOOSE s \in 1..MISSION_MAX : ~pm[s] /\ \A t \in 1..(s - 1) : pm[t]

\* the first free slot of player_missions, MISSION_MAX + 1 when all are taken
FirstFreeSlot(pm) ==
    IF \A s \in 1..MISSION_MAX : pm[s] THEN MISSION_MAX + 1
    ELSE CHOOSE s \in 1..MISSION_MAX : ~pm[s] /\ \A t \in 1..(s - 1) : pm[t]

\* variant: the alternate success (2) is left out
Consumed_no2(r) == (r = 0) \/ (r = -1)

\* the outcomes of mission_accept that make npc_approach_giver destroy the record
Consumed(r) == (r = 0) \/ (r = 2) \/ (r = -1)

\* the collaborator calls of the switch in npc_approach
MisnRun(npc) == <<Call("misn_run", npc.u.m.misn.id, npc.u.m.func)>>
\* variant: the NPC's id is passed where the event's id belongs
EventRun_npcid(npc) == <<Call("event_run", npc.id, npc.u.e.func)>>
EventRun(npc) == <<Call("event_run", npc.u.e.id, npc.u.e.func)>>

\* npc_approach_giver on the record at position p of reg, pm being the
\* player's slots and r what mission_accept returns: the outcomes, each with
\* the slots it leaves
npc_approach_giver(reg, pm, p, r) ==
    LET npc == reg.array[p]
        slot == FirstFreeSlot(pm)
    IN  IF slot > MISSION_MAX
        THEN {[out |-> Done(reg, -1, <<>>,
                            <<Call("dialogue_alert", 0, "You have too many active missions.")>>),
               pm |-> pm]}
        ELSE {[out |-> IF Consumed(r)
                       THEN Done([reg EXCEPT !.array = array_erase(reg.array, p)], 1, <<>>,
                                 <<Call("mission_accept", npc.id, "u.g")>>
                                 \o (IF r = -1 THEN <<Call("mission_cleanup", npc.id, "u.g")>>
                                     ELSE <<>>)
                                 \o npc_free(npc))
                       ELSE Done(reg, 0, <<>>, <<Call("mission_accept", npc.id, "u.g")>>),
               \* a mission that was accepted may have taken the free slot
               pm |-> IF taken THEN [pm EXCEPT ![slot] = TRUE] ELSE pm]
              : taken \in (IF r = 0 THEN {TRUE, FALSE} ELSE {FALSE})}

\* npc_approach( i ) on the registry reg; r is what mission_accept returns if
\* it is called
npc_approach_on(reg, pm, i, r) ==
    UNION {IF b = "fault" THEN {[out |-> Undefined(reg), pm |-> pm]}
           ELSE IF b = "null" THEN {[out |-> Done(reg, -1, <<>>, <<>>), pm |-> pm]}
           ELSE LET npc == reg.array[i + 1]
                IN  IF npc.type = NPC_TYPE_GIVER THEN npc_approach_giver(reg, pm, i + 1, r)
                    ELSE IF npc.type = NPC_TYPE_MISSION
                    THEN {[out |-> Done(reg, 0, <<>>, MisnRun(npc)), pm |-> pm]}
                    ELSE IF npc.type = NPC_TYPE_EVENT
                    THEN {[out |-> Done(reg, 0, <<>>, EventRun(npc)), pm |-> pm]}
                    ELSE {[out |-> Done(reg, -1, <<>>,
                                        <<Call("WARN", npc.id, "Unknown NPC type!")>>),
                           pm |-> pm]}
           : b \in InBounds(reg, i)}

npc_approach(i, r) ==
    /\ Running
    /\ \E o \in npc_approach_on(Reg, player_missions, i, r) :
          /\ Apply("npc_approach", o.out)
          /\ player_missions' = o.pm
    /\ UNCHANGED landed

(***************************************************************************)
(* The collaborators' own state: landing and taking off, and the player's  *)
(* mission slots filling and emptying.                                     *)
(***************************************************************************)
SetLanded(v) ==
    /\ Running
    /\ landed # v
    /\ landed' = v
    /\ Store(Reg)
    /\ Observe(IF v THEN "land" ELSE "takeoff", 0, <<>>, <<>>)
    /\ UNCHANGED player_missions

\* the slots fill from the front and empty from the back
SetPlayerMission(s, v) ==
    /\ Running
    /\ player_missions[s] # v
    /\ \A t \in 1..MISSION_MAX : (t < s => player_missions[t]) /\ (t > s => ~player_missions[t])
    /\ player_missions' = [player_missions EXCEPT ![s] = v]
    /\ Store(Reg)
    /\ Observe("player_mission", 0, <<>>, <<>>)
    /\ UNCHANGED landed

Init ==
    /\ landed = FALSE
    /\ player_missions = [s \in 1..MISSION_MAX |-> FALSE]
    /\ npc_array = <<>>
    /\ npc_array_alloc = FALSE
    /\ npc_array_idgen = 0
    /\ op = "init"
    /\ ret = 0
    /\ fault = FALSE
    /\ issued = <<>>
    /\ calls = <<>>

Next ==
    \/ \E m \in BarMissions, f \in Funcs, n \in Names, p \in RefPriorities,
         g \in Portraits, d \in Descs :
         npc_add_mission(PlayerMission(m), f, n, p, g, d)
    \/ \E e \in BarEvents, f \in Funcs, n \in Names, p \in RefPriorities,
         g \in Portraits, d \in Descs :
         npc_add_event(e, f, n, p, g, d)
    \/ \E id \in Ids, e \in EventIds : npc_rm_event(id, e)
    \/ \E id \in Ids, m \in MissionIds : npc_rm_mission(id, PlayerMission(m))
    \/ \E ms \in MissionLists : npc_generate(ms)
    \/ npc_clear
    \/ npc_freeAll
    \/ \E i \in Indices, r \in AcceptOutcomes : npc_approach(i, r)
    \/ \E v \in BOOLEAN : SetLanded(v)
    \/ \E s \in 1..MISSION_MAX, v \in BOOLEAN : SetPlayerMission(s, v)

Spec == Init /\ [][Next]_vars

(***************************************************************************)
(* npc_approach with a collaborator that calls back.  mission_accept,      *)
(* misn_run and event_run run mission and event scripts, and a script may  *)
(* call npc_add_mission, npc_add_event, npc_rm_mission or npc_rm_event     *)
(* before it returns.  npc_approach took npc = &npc_array[i] before the    *)
(* call and npc_approach_giver uses that pointer after it.                 *)
(***************************************************************************)
\* the one registry call the script makes
Callbacks ==
    {[fn |-> "npc_add_mission", id |-> 0, arg |-> m] : m \in BarMissions}
    \cup {[fn |-> "npc_add_event", id |-> 0, arg |-> e] : e \in BarEvents}
    \cup {[fn |-> "npc_rm_mission", id |-> id, arg |-> m] : id \in Ids, m \in MissionIds}
    \cup {[fn |-> "npc_rm_event", id |-> id, arg |-> e] : id \in Ids, e \in EventIds}

\* the outcomes of that call on the registry reg
CallbackOn(reg, cb, isLanded) ==
    IF cb.fn = "npc_add_mission"
    THEN {LET r == npc_add(reg, MissionNpc(PlayerMission(cb.arg), f, n, p, g, d), isLanded)
          IN  Done(r.reg, r.id, <<r.id>>, RefAllocs)
          : f \in Funcs, n \in Names, p \in RefPriorities, g \in Portraits, d \in Descs}
    ELSE IF cb.fn = "npc_add_event"
    THEN {LET r == npc_add(reg, EventNpc(cb.arg, f, n, p, g, d), isLanded)
          IN  Done(r.reg, r.id, <<r.id>>, RefAllocs)
          : f \in Funcs, n \in Names, p \in RefPriorities, g \in Portraits, d \in Descs}
    ELSE IF cb.fn = "npc_rm_mission"
    THEN npc_rm_mission_on(reg, cb.id, PlayerMission(cb.arg))
    ELSE npc_rm_event_on(reg, cb.id, cb.arg)

\* What npc, the address of element p of the array before the call, points to
\* after the call left the array as `after': a position of `after', or 0
\* when it points outside the array.  array_grow may move the array
\* (then npc is dangling) or extend it in place; array_erase below npc moves
\* the following element into its place, or leaves it past the end.
Pointee(before, after, p) ==
    IF Len(after) > Len(before) THEN {p, 0}
    ELSE IF p <= Len(after) THEN {p}
    ELSE {0}

\* npc_approach_giver when mission_accept runs a script that makes the call cb
npc_approach_giver_calling_back(reg, pm, p, r, cb, isLanded) ==
    LET npc == reg.array[p]
        slot == FirstFreeSlot(pm)
    IN  IF slot > MISSION_MAX
        THEN {[out |-> Done(reg, -1, <<>>,
                            <<Call("dialogue_alert", 0, "You have too many active missions.")>>),
               pm |-> pm]}
        ELSE UNION {
             {[out |-> IF c.fault THEN Undefined(c.reg)
                       ELSE IF ~Consumed(r)
                       THEN Done(c.reg, 0, c.ids,
                                 <<Call("mission_accept", npc.id, "u.g")>> \o c.log)
                       ELSE IF t = 0 THEN Undefined(c.reg)
                       ELSE Done([c.reg EXCEPT !.array = array_erase(c.reg.array, t)], 1, c.ids,
                                 <<Call("mission_accept", npc.id, "u.g")>> \o c.log
                                 \o (IF r = -1
                                     THEN <<Call("mission_cleanup", c.reg.array[t].id, "u.g")>>
                                     ELSE <<>>)
                                 \o npc_free(c.reg.array[t])),
               pm |-> IF taken THEN [pm EXCEPT ![slot] = TRUE] ELSE pm]
              : t \in (IF c.fault THEN {0} ELSE Pointee(reg.array, c.reg.array, p)),
                taken \in (IF r = 0 THEN {TRUE, FALSE} ELSE {FALSE})}
             : c \in CallbackOn(reg, cb, isLanded)}

\* npc_approach( i ) on an element of the array, the collaborator calling back
npc_approach_calling_back_on(reg, pm, i, r, cb, isLanded) ==
    LET npc == reg.array[i + 1]
    IN  IF npc.type = NPC_TYPE_GIVER
        THEN npc_approach_giver_calling_back(reg, pm, i + 1, r, cb, isLanded)
        ELSE {[out |-> IF c.fault THEN Undefined(c.reg)
                       ELSE Done(c.reg, 0, c.ids,
                                 (IF npc.type = NPC_TYPE_MISSION THEN MisnRun(npc)
                                  ELSE EventRun(npc)) \o c.log),
               pm |-> pm]
              : c \in CallbackOn(reg, cb, isLanded)}

npc_approach_calling_back(i, r, cb) ==
    /\ Running
    /\ npc_array_alloc
    /\ i >= 0
    /\ i < Len(npc_array)
    /\ cb.fn \in {"npc_add_mission", "npc_add_event"} => npc_array_idgen < MaxId
    /\ \E o \in npc_approach_calling_back_on(Reg, player_missions, i, r, cb, landed) :
          /\ Apply("npc_approach", o.out)
          /\ player_missions' = o.pm
    /\ UNCHANGED landed

NextReentrant ==
    \/ Next
    \/ \E i \in Indices, r \in AcceptOutcomes, cb \in Callbacks :
          npc_approach_calling_back(i, r, cb)

SpecReentrant == Init /\ [][NextReentrant]_vars
(***************************************************************************)
(* What the properties below speak about.                                  *)
(***************************************************************************)
\* size()
Size == npc_getArraySize(Reg)

\* the number of adds of the operation that succeeded
Successes(ids) == Cardinality({k \in 1..Len(ids) : ids[k] # 0})

Records(arr) == {arr[k] : k \in 1..Len(arr)}

DistinctIds(arr) ==
    \A j, k \in 1..Len(arr) : j # k => arr[j].id # arr[k].id

Sorted(arr) ==
    \A k \in 1..(Len(arr) - 1) : arr[k].priority <= arr[k + 1].priority

Priority(arr) == [k \in 1..Len(arr) |-> arr[k].priority]
IdsOf(arr) == [k \in 1..Len(arr) |-> arr[k].id]

\* arr without the record whose id is id, the others in their order
Without(arr, id) == SelectSeq(arr, LAMBDA x : x.id # id)

RegistryUnchanged ==
    /\ npc_array' = npc_array
    /\ npc_array_alloc' = npc_array_alloc
    /\ npc_array_idgen' = npc_array_idgen

(***************************************************************************)
(* C1: ids are unique and only grow.  In every state every record's id is  *)
(* at least 1 and at most the generator, and no two records share an id.   *)
(* In every step the generator does not decrease (clear and freeAll        *)
(* included), and every non-zero id an add returns is greater than the     *)
(* generator was before the operation, so greater than every id issued     *)
(* before, greater than the ids the same operation returned earlier, and   *)
(* it is the id of exactly one record of the collection afterwards.        *)
(***************************************************************************)
C1_IdsInRecords ==
    /\ DistinctIds(npc_array)
    /\ \A k \in 1..Len(npc_array) :
          npc_array[k].id >= 1 /\ npc_array[k].id <= npc_array_idgen

C1_IdsStep ==
    /\ npc_array_idgen' >= npc_array_idgen
    /\ \A k \in 1..Len(issued') :
          issued'[k] # 0 =>
             /\ issued'[k] > npc_array_idgen
             /\ issued'[k] <= npc_array_idgen'
             /\ \A j \in 1..(k - 1) : issued'[j] < issued'[k]
             /\ Cardinality({n \in 1..Len(npc_array') : npc_array'[n].id = issued'[k]}) = 1
    /\ op' \in {"npc_add_mission", "npc_add_event"} => issued' = <<ret'>>

C1_UniqueIds == []C1_IdsInRecords /\ [][C1_IdsStep]_vars

\* an add after two earlier records are gone still gets a new id
C1_Witness ==
    /\ op = "npc_add_event"
    /\ ret = MaxId
    /\ Len(npc_array) = 1

(***************************************************************************)
(* C2: size() counts the successful adds minus the removals since the last *)
(* clear or freeAll.  It is 0 at the start and right after clear and       *)
(* freeAll; every other step changes it by the number of adds that         *)
(* returned a non-zero id, minus one if the step is a removal that         *)
(* succeeded or an approach that reported "destroyed".                     *)
(***************************************************************************)
Removed ==
    IF \/ op' \in {"npc_rm_event", "npc_rm_mission"} /\ ~fault' /\ ret' = 0
       \/ op' = "npc_approach" /\ ~fault' /\ ret' = 1
    THEN 1 ELSE 0

C2_SizeStep ==
    IF op' \in {"npc_clear", "npc_freeAll"}
    THEN Size' = 0
    ELSE Size' = Size + Successes(issued') - Removed

C2_SizeCounts == (Size = 0) /\ [][C2_SizeStep]_vars

\* a removal succeeded and left two records
C2_Witness ==
    /\ op = "npc_rm_event"
    /\ ret = 0
    /\ ~fault
    /\ Size = 2

(***************************************************************************)
(* C3: right after npc_generate the collection is sorted by ascending      *)
(* priority, and the sort is a permutation: the records that were there    *)
(* before are all there, unaltered, the only other records are the ones    *)
(* the adds of this call created, and no record is there twice.            *)
(***************************************************************************)
C3_GenerateStep ==
    op' = "npc_generate" =>
       /\ Sorted(npc_array')
       /\ {x \in Records(npc_array') : x.id <= npc_array_idgen} = Records(npc_array)
       /\ {x.id : x \in {y \in Records(npc_array') : y.id > npc_array_idgen}}
             = {issued'[k] : k \in 1..Len(issued')} \ {0}
       /\ Len(npc_array') = Len(npc_array) + Successes(issued')
       /\ DistinctIds(npc_array')

C3_GenerateSorts == [][C3_GenerateStep]_vars

\* givers generated with priorities 5, 1, 3 stand in the order 1, 3, 5
C3_Witness ==
    /\ op = "npc_generate"
    /\ issued = <<1, 2, 3>>
    /\ Priority(npc_array) = <<1, 3, 5>>
    /\ IdsOf(npc_array) = <<2, 3, 1>>

(***************************************************************************)
(* C4: npc_rm_event(id, evt) returns -1 and changes nothing when no record *)
(* has that id, when the record with that id is not an event NPC, or when  *)
(* its event id is not evt; otherwise it returns 0 and removes exactly     *)
(* that record, the others keeping their order.                            *)
(***************************************************************************)
EventHit(id, evt) ==
    \E k \in 1..Len(npc_array) :
       /\ npc_array[k].id = id
       /\ npc_array[k].type = NPC_TYPE_EVENT
       /\ npc_array[k].u.e.id = evt

C4_RmEventStep ==
    op' = "npc_rm_event" =>
       \A id \in Ids, evt \in EventIds :
          npc_rm_event(id, evt) =>
             IF EventHit(id, evt)
             THEN /\ ~fault'
                  /\ ret' = 0
                  /\ npc_array' = Without(npc_array, id)
                  /\ Size' = Size - 1
             ELSE /\ ~fault'
                  /\ ret' = -1
                  /\ RegistryUnchanged

C4_RmEvent == [][C4_RmEventStep]_vars

\* C4 on a registry whose array exists: the statement holds there
C4_RmEventAllocated == [][npc_array_alloc => C4_RmEventStep]_vars

(***************************************************************************)
(* C5: npc_rm_mission(id, misn) returns -1 and changes nothing when no     *)
(* record has that id, when the record with that id is not a mission NPC   *)
(* (a giver included), or when its mission's id is not misn's id;          *)
(* otherwise it returns 0 and removes exactly that record, the others      *)
(* keeping their order.                                                    *)
(***************************************************************************)
MissionHit(id, m) ==
    \E k \in 1..Len(npc_array) :
       /\ npc_array[k].id = id
       /\ npc_array[k].type = NPC_TYPE_MISSION
       /\ npc_array[k].u.m.misn.id = m

C5_RmMissionStep ==
    op' = "npc_rm_mission" =>
       \A id \in Ids, m \in MissionIds :
          npc_rm_mission(id, PlayerMission(m)) =>
             IF MissionHit(id, m)
             THEN /\ ~fault'
                  /\ ret' = 0
                  /\ npc_array' = Without(npc_array, id)
                  /\ Size' = Size - 1
             ELSE /\ ~fault'
                  /\ ret' = -1
                  /\ RegistryUnchanged

C5_RmMission == [][C5_RmMissionStep]_vars

\* C5 on a registry whose array exists: the statement holds there
C5_RmMissionAllocated == [][npc_array_alloc => C5_RmMissionStep]_vars

(***************************************************************************)
(* C6: npc_approach on a giver while every player mission slot is taken    *)
(* returns -1, raises the "too many active missions" alert, does not call  *)
(* mission_accept and leaves the registry and the slots as they were.      *)
(***************************************************************************)
IsAt(i, type) ==
    /\ i >= 0
    /\ i < Size
    /\ npc_array[i + 1].type = type

SlotsFull == \A s \in 1..MISSION_MAX : player_missions[s]

CallsTo(log, fn) == {k \in 1..Len(log) : log[k].fn = fn}

C6_FullStep ==
    op' = "npc_approach" =>
       \A i \in Indices, r \in AcceptOutcomes :
          (IsAt(i, NPC_TYPE_GIVER) /\ SlotsFull /\ npc_approach(i, r)) =>
             /\ ~fault'
             /\ ret' = -1
             /\ \E k \in CallsTo(calls', "dialogue_alert") :
                   calls'[k].what = "You have too many active missions."
             /\ CallsTo(calls', "mission_accept") = {}
             /\ RegistryUnchanged
             /\ player_missions' = player_missions

C6_SlotsFull == [][C6_FullStep]_vars

\* the alert was raised for a giver, which is still there
C6_Witness ==
    /\ op = "npc_approach"
    /\ ret = -1
    /\ CallsTo(calls, "dialogue_alert") # {}
    /\ \E k \in 1..Len(npc_array) : npc_array[k].type = NPC_TYPE_GIVER

(***************************************************************************)
(* C7: npc_approach on a giver with a free slot calls mission_accept       *)
(* exactly once, for that giver.  If it returns 0, 2 or -1 the record is   *)
(* freed and removed, the others keep their order, size() drops by one and *)
(* the result is 1; for any other value the registry is unchanged and the  *)
(* result is 0.                                                            *)
(***************************************************************************)
C7_AcceptStep ==
    op' = "npc_approach" =>
       \A i \in Indices, r \in AcceptOutcomes :
          (IsAt(i, NPC_TYPE_GIVER) /\ ~SlotsFull /\ npc_approach(i, r)) =>
             LET npc == npc_array[i + 1]
             IN  /\ ~fault'
                 /\ Cardinality(CallsTo(calls', "mission_accept")) = 1
                 /\ \A k \in CallsTo(calls', "mission_accept") : calls'[k].id = npc.id
                 /\ IF r \in {0, 2, -1}
                    THEN /\ ret' = 1
                         /\ npc_array' = Without(npc_array, npc.id)
                         /\ Size' = Size - 1
                         /\ npc_array_alloc' = npc_array_alloc
                         /\ npc_array_idgen' = npc_array_idgen
                         /\ \E k \in CallsTo(calls', "free") :
                               calls'[k].id = npc.id /\ calls'[k].what = "name"
                         /\ \E k \in CallsTo(calls', "gl_freeTexture") : calls'[k].id = npc.id
                    ELSE /\ ret' = 0
                         /\ RegistryUnchanged

C7_GiverAccept == [][C7_AcceptStep]_vars

\* a giver was consumed and two other records are left
C7_Witness ==
    /\ op = "npc_approach"
    /\ ret = 1
    /\ Size = 2

(***************************************************************************)
(* C8: npc_approach on a mission NPC calls misn_run with the stored        *)
(* mission and callback name, and on an event NPC calls event_run with the *)
(* stored event id and callback name; nothing else is called, nothing is   *)
(* freed or removed, the registry is unchanged and the result is 0.        *)
(***************************************************************************)
C8_RefStep ==
    op' = "npc_approach" =>
       \A i \in Indices, r \in AcceptOutcomes :
          /\ (IsAt(i, NPC_TYPE_MISSION) /\ npc_approach(i, r)) =>
                /\ ~fault'
                /\ ret' = 0
                /\ calls' = <<Call("misn_run", npc_array[i + 1].u.m.misn.id,
                                   npc_array[i + 1].u.m.func)>>
                /\ RegistryUnchanged
          /\ (IsAt(i, NPC_TYPE_EVENT) /\ npc_approach(i, r)) =>
                /\ ~fault'
                /\ ret' = 0
                /\ calls' = <<Call("event_run", npc_array[i + 1].u.e.id,
                                   npc_array[i + 1].u.e.func)>>
                /\ RegistryUnchanged

C8_RefApproach == [][C8_RefStep]_vars

\* the callback of an event NPC was run and the NPC is still there
C8_Witness ==
    /\ op = "npc_approach"
    /\ ret = 0
    /\ calls = <<Call("event_run", 7, "foo")>>
    /\ \E k \in 1..Len(npc_array) : npc_array[k].type = NPC_TYPE_EVENT

(***************************************************************************)
(* C9: while the player is not landed, npc_add_mission and npc_add_event   *)
(* return 0 and change nothing, every add of npc_generate returns 0 and    *)
(* the call leaves the same records behind, and no step of any operation   *)
(* brings a record into existence, takes an id from the generator or       *)
(* creates the array.                                                      *)
(***************************************************************************)
C9_NotLandedStep ==
    ~landed =>
       /\ op' \in {"npc_add_mission", "npc_add_event"} =>
             ret' = 0 /\ issued' = <<0>> /\ RegistryUnchanged
       /\ op' = "npc_generate" =>
             /\ \A k \in 1..Len(issued') : issued'[k] = 0
             /\ Len(npc_array') = Len(npc_array)
       /\ Records(npc_array') \subseteq Records(npc_array)
       /\ npc_array_idgen' = npc_array_idgen
       /\ npc_array_alloc' => npc_array_alloc

C9_NotLanded == [][C9_NotLandedStep]_vars

\* an add was refused while a record added earlier is still there
C9_Witness ==
    /\ op = "npc_add_event"
    /\ ret = 0
    /\ ~landed
    /\ Size = 1

(***************************************************************************)
(* C10: in every state, for every index outside [0, size()) npc_getName,   *)
(* npc_getTexture and npc_getDesc return NULL and npc_approach returns -1  *)
(* and changes nothing; for every index inside they return the name,       *)
(* portrait and description of the record at that position.                *)
(***************************************************************************)
C10_Accessors ==
    \A i \in Indices :
       IF i >= 0 /\ i < Size
       THEN /\ npc_getName(Reg, i) = {Returns(npc_array[i + 1].name)}
            /\ npc_getTexture(Reg, i) = {Returns(npc_array[i + 1].portrait)}
            /\ npc_getDesc(Reg, i) = {Returns(npc_array[i + 1].desc)}
       ELSE /\ npc_getName(Reg, i) = {Returns(NULL)}
            /\ npc_getTexture(Reg, i) = {Returns(NULL)}
            /\ npc_getDesc(Reg, i) = {Returns(NULL)}

C10_ApproachStep ==
    op' = "npc_approach" =>
       \A i \in Indices, r \in AcceptOutcomes :
          (~(i >= 0 /\ i < Size) /\ npc_approach(i, r)) =>
             /\ ~fault'
             /\ ret' = -1
             /\ calls' = <<>>
             /\ RegistryUnchanged
             /\ player_missions' = player_missions

C10_BoundsChecked == []C10_Accessors /\ [][C10_ApproachStep]_vars

\* C10 on a registry whose array exists: the statement holds there
C10_BoundsCheckedAllocated ==
    [](npc_array_alloc => C10_Accessors) /\ [][npc_array_alloc => C10_ApproachStep]_vars

(***************************************************************************)
(* C11: freeAll leaves a fresh registry.  As claimed: right after          *)
(* npc_freeAll every add returns the id and leaves the collection that the *)
(* same add returns and leaves on a registry that was never used.          *)
(***************************************************************************)
FreshReg == [array |-> <<>>, alloc |-> FALSE, idgen |-> 0]

\* the records an add may be given
AddInputs ==
    {MissionNpc(PlayerMission(m), f, n, p, g, d) :
        m \in BarMissions, f \in Funcs, n \in Names, p \in RefPriorities,
        g \in Portraits, d \in Descs}
    \cup {EventNpc(e, f, n, p, g, d) :
        e \in BarEvents, f \in Funcs, n \in Names, p \in RefPriorities,
        g \in Portraits, d \in Descs}
    \cup {GiverNpc(GenMission(p)) : p \in Priorities}

C11_FreshAfterFreeAll ==
    op = "npc_freeAll" =>
       \A npc \in AddInputs : npc_add(Reg, npc, TRUE) = npc_add(FreshReg, npc, TRUE)

(***************************************************************************)
(* C11 as amended: npc_freeAll leaves the registry of a fresh one except   *)
(* for the id generator, which keeps its value, and from there on every    *)
(* operation does what it does on a fresh registry with every id larger by *)
(* that value.  In every state, for every k below all ids in the           *)
(* collection (the ids issued before the freeAll), each operation on the   *)
(* registry with all ids lowered by k has exactly the outcomes it has on   *)
(* the registry itself, lowered by k: the same results, the same records   *)
(* in the same order.                                                      *)
(***************************************************************************)
\* an id lowered by k; 0 is the "no id" an add returns when it fails
ShiftId(id, k) == IF id = 0 THEN 0 ELSE id - k

Shift(reg, k) ==
    [array |-> [n \in 1..Len(reg.array) |-> [reg.array[n] EXCEPT !.id = @ - k]],
     alloc |-> reg.alloc,
     idgen |-> reg.idgen - k]

\* an outcome as the caller sees it, ids lowered by k
Seen(o, k) ==
    [fault |-> o.fault, reg |-> Shift(o.reg, k), ret |-> o.ret,
     ids |-> [n \in 1..Len(o.ids) |-> ShiftId(o.ids[n], k)]]

\* the numbers of ids that may have been issued before the last freeAll
Bases(reg) ==
    {k \in 0..reg.idgen : \A n \in 1..Len(reg.array) : reg.array[n].id > k}

C11_ShiftInvariant ==
    \A k \in Bases(Reg) :
       LET low == Shift(Reg, k)
       IN  /\ \A npc \in AddInputs, isLanded \in BOOLEAN :
                 /\ npc_add(low, npc, isLanded).reg = Shift(npc_add(Reg, npc, isLanded).reg, k)
                 /\ npc_add(low, npc, isLanded).id = ShiftId(npc_add(Reg, npc, isLanded).id, k)
           /\ \A id \in Ids, evt \in EventIds :
                 {Seen(o, 0) : o \in npc_rm_event_on(low, id - k, evt)}
                    = {Seen(o, k) : o \in npc_rm_event_on(Reg, id, evt)}
           /\ \A id \in Ids, m \in MissionIds :
                 {Seen(o, 0) : o \in npc_rm_mission_on(low, id - k, PlayerMission(m))}
                    = {Seen(o, k) : o \in npc_rm_mission_on(Reg, id, PlayerMission(m))}
           /\ \A ms \in MissionLists, isLanded \in BOOLEAN :
                 npc_array_idgen + Len(ms) <= MaxId =>
                    {Seen(o, 0) : o \in npc_generate_on(low, ms, isLanded)}
                       = {Seen(o, k) : o \in npc_generate_on(Reg, ms, isLanded)}
           /\ Cleared(low).reg = Shift(Cleared(Reg).reg, k)
           /\ \A i \in Indices, r \in AcceptOutcomes :
                 {[out |-> Seen(o.out, 0), pm |-> o.pm] :
                     o \in npc_approach_on(low, player_missions, i, r)}
                    = {[out |-> Seen(o.out, k), pm |-> o.pm] :
                         o \in npc_approach_on(Reg, player_missions, i, r)}
           /\ npc_getArraySize(low) = npc_getArraySize(Reg)
           /\ \A i \in Indices :
                 /\ npc_getName(low, i) = npc_getName(Reg, i)
                 /\ npc_getTexture(low, i) = npc_getTexture(Reg, i)
                 /\ npc_getDesc(low, i) = npc_getDesc(Reg, i)

\* npc_freeAll leaves a fresh registry whose generator kept its value
C11_FreeAllStep ==
    op' = "npc_freeAll" =>
       /\ npc_array_idgen' = npc_array_idgen
       /\ npc_array_idgen' \in Bases(Reg')
       /\ Shift(Reg', npc_array_idgen') = FreshReg

C11_FreshUpToIds == []C11_ShiftInvariant /\ [][C11_FreeAllStep]_vars

\* freeAll has freed the records of a registry that had issued two ids
C11_Witness ==
    /\ op = "npc_freeAll"
    /\ npc_array_idgen = 2
    /\ Len(calls) > 1
    /\ ~npc_array_alloc

(***************************************************************************)
(* C12: npc_clear on an initialized registry releases, for every record of *)
(* the collection, its name, portrait, description and type-specific data  *)
(* exactly once and nothing else, leaves the collection empty and the      *)
(* array allocated, and keeps the generator; on an uninitialized registry  *)
(* it does nothing.  Afterwards size() is 0 and no removal, for any id and *)
(* any event or mission, succeeds or changes the registry (on an           *)
(* initialized registry each returns -1).  A second npc_clear right after  *)
(* the first changes nothing and releases nothing.                         *)
(***************************************************************************)
\* the number of times the call fn(id, what) is in log
Times(log, fn, id, what) ==
    Cardinality({k \in 1..Len(log) : log[k] = Call(fn, id, what)})

\* the name of the type-specific resource npc_free releases
Specific(npc) ==
    IF npc.type = NPC_TYPE_GIVER THEN Call("mission_cleanup", npc.id, "u.g")
    ELSE IF npc.type = NPC_TYPE_MISSION THEN Call("free", npc.id, "u.m.func")
    ELSE Call("free", npc.id, "u.e.func")

FreedOnce(log, npc) ==
    /\ Times(log, "free", npc.id, "name") = 1
    /\ Times(log, "gl_freeTexture", npc.id, "portrait") = 1
    /\ Times(log, "free", npc.id, "desc") = 1
    /\ Cardinality({k \in 1..Len(log) : log[k] = Specific(npc)}) = 1

\* no removal on reg finds a record
NothingToRemove(reg) ==
    /\ \A id \in Ids, evt \in EventIds :
          \A o \in npc_rm_event_on(reg, id, evt) :
             /\ o.reg = reg
             /\ o.fault \/ o.ret = -1
             /\ reg.alloc => ~o.fault
    /\ \A id \in Ids, m \in MissionIds :
          \A o \in npc_rm_mission_on(reg, id, PlayerMission(m)) :
             /\ o.reg = reg
             /\ o.fault \/ o.ret = -1
             /\ reg.alloc => ~o.fault

C12_ClearStep ==
    op' = "npc_clear" =>
       /\ ~fault'
       /\ IF npc_array_alloc
          THEN /\ \A k \in 1..Len(npc_array) : FreedOnce(calls', npc_array[k])
               /\ Len(calls') = 4 * Len(npc_array)
               /\ npc_array' = <<>>
               /\ npc_array_alloc'
               /\ npc_array_idgen' = npc_array_idgen
          ELSE /\ RegistryUnchanged
               /\ calls' = <<>>
       /\ Size' = 0
       /\ NothingToRemove(Reg')
       /\ op = "npc_clear" => (RegistryUnchanged /\ calls' = <<>>)
       /\ Cleared(Reg') = [reg |-> Reg', log |-> <<>>]

C12_Clear == [][C12_ClearStep]_vars

\* two records were freed by npc_clear; the array is still there, empty
C12_Witness ==
    /\ op = "npc_clear"
    /\ Len(calls) = 8
    /\ npc_array_alloc
    /\ npc_array = <<>>
    /\ npc_array_idgen = 2

(***************************************************************************)
(* C13: in every state and for every maxCount n, npc_getNameArray and      *)
(* npc_getTextureArray write and return 0 entries when the registry is     *)
(* uninitialized or n <= 0, and otherwise min(n, size()) entries, never    *)
(* more than n; entry k is the name, duplicated with one strdup per entry, *)
(* or the portrait, with no duplication, of the record at position k.      *)
(***************************************************************************)
\* the values of maxCount: negative, zero, up to more than the collection holds
MaxCounts == (-1)..(MaxId + 1)

Count(n) ==
    IF ~npc_array_alloc \/ n <= 0 THEN 0
    ELSE IF n < Size THEN n ELSE Size

C13_BulkAccessors ==
    \A n \in MaxCounts :
       LET names == npc_getNameArray(Reg, n)
           tex == npc_getTextureArray(Reg, n)
       IN  /\ names.ret = Count(n)
           /\ tex.ret = Count(n)
           /\ n > 0 => (names.ret <= n /\ tex.ret <= n)
           /\ Len(names.buf) = names.ret
           /\ Len(tex.buf) = tex.ret
           /\ \A k \in 1..Count(n) :
                 /\ names.buf[k] = npc_array[k].name
                 /\ tex.buf[k] = npc_array[k].portrait
           /\ Len(names.log) = names.ret
           /\ \A k \in 1..Len(names.log) : names.log[k].fn = "strdup"
           /\ tex.log = <<>>

\* three records, of which a buffer of two gets the first two in order
C13_Witness ==
    /\ Size = 3
    /\ Priority(npc_array) = <<1, 3, 5>>
    /\ npc_getNameArray(Reg, 2).buf = <<"Trader", "Pilot">>
    /\ npc_getTextureArray(Reg, 2).buf = <<"trader.png", "pilot.png">>

(***************************************************************************)
(* C14: npc_generate while landed, missions_genList returning ms, makes    *)
(* one add per mission, each returning the next fresh id; afterwards the   *)
(* collection holds, for mission k, exactly one record with the k-th id,   *)
(* and it is a giver with the priority, name, portrait, description and    *)
(* copy of that mission; every record that was there before is still       *)
(* there unaltered, the collection holds nothing else, and size() has      *)
(* grown by the number of missions.                                        *)
(***************************************************************************)
WithId(arr, id) == {x \in Records(arr) : x.id = id}

C14_GenerateStep ==
    (op' = "npc_generate" /\ landed) =>
       \A ms \in MissionLists :
          npc_generate(ms) =>
             /\ ~fault'
             /\ Len(issued') = Len(ms)
             /\ \A k \in 1..Len(ms) :
                   /\ issued'[k] = npc_array_idgen + k
                   /\ WithId(npc_array, issued'[k]) = {}
                   /\ WithId(npc_array', issued'[k])
                         = {[id |-> issued'[k], type |-> NPC_TYPE_GIVER,
                             priority |-> ms[k].priority, name |-> ms[k].npc,
                             portrait |-> ms[k].portrait, desc |-> ms[k].desc,
                             u |-> [g |-> ms[k]]]}
             /\ Records(npc_array) \subseteq Records(npc_array')
             /\ Records(npc_array') \ Records(npc_array)
                   = UNION {WithId(npc_array', issued'[k]) : k \in 1..Len(ms)}
             /\ Len(npc_array') = Len(npc_array) + Len(ms)
             /\ Size' = Size + Len(ms)
             /\ DistinctIds(npc_array')

C14_GeneratePreserves == [][C14_GenerateStep]_vars

\* two givers were generated next to an event NPC that was already there
C14_Witness ==
    /\ op = "npc_generate"
    /\ landed
    /\ issued = <<2, 3>>
    /\ Size = 3
    /\ \E k \in 1..Len(npc_array) :
          npc_array[k].type = NPC_TYPE_EVENT /\ npc_array[k].id = 1

(***************************************************************************)
(* C15: once npc_generate has completed the collection stays sorted by     *)
(* ascending priority.  The first states the claim speaks of: the state    *)
(* npc_generate leaves, and the state the operation that follows it        *)
(* leaves, whichever operation that is.                                    *)
(***************************************************************************)
C15_SortedStep ==
    (op' = "npc_generate" \/ op = "npc_generate") => Sorted(npc_array')

C15_KeptSorted == [][C15_SortedStep]_vars

(***************************************************************************)
(* C16: mission_cleanup is called exactly once for a giver, when it is     *)
(* freed.  In every step, for every giver of the collection: if the step   *)
(* takes it out of the collection (approach with a consumed outcome,       *)
(* clear, freeAll) mission_cleanup is called exactly once for its mission  *)
(* copy, and if it stays it is not called at all; it is called for no      *)
(* other record.                                                           *)
(***************************************************************************)
Givers(arr) == {x \in Records(arr) : x.type = NPC_TYPE_GIVER}

CleanupOnce ==
    /\ \A g \in Givers(npc_array) :
          Times(calls', "mission_cleanup", g.id, "u.g")
             = (IF WithId(npc_array', g.id) = {} THEN 1 ELSE 0)
    /\ \A k \in CallsTo(calls', "mission_cleanup") :
          \E g \in Givers(npc_array) : calls'[k].id = g.id

\* the steps in which mission_accept, if called, returns one of outcomes
C16_Step(outcomes) ==
    IF op' = "npc_approach"
    THEN \A i \in Indices, r \in outcomes : npc_approach(i, r) => CleanupOnce
    ELSE CleanupOnce

C16_CleanupOnce == [][C16_Step(AcceptOutcomes)]_vars

\* C16 without the outcome -1 of mission_accept: the statement holds there
C16_CleanupOnceNoError == [][C16_Step(AcceptOutcomes \ {-1})]_vars

(***************************************************************************)
(* C17: every string and image an add duplicates or loads is owned by one  *)
(* record of the collection or has been released once.  In every step:     *)
(* the strings and images the step duplicates or loads are exactly those   *)
(* of the records it brings into the collection (three for a giver, four   *)
(* for a mission or event NPC); the strings and images it releases are     *)
(* exactly those of the records it takes out, each released once; and      *)
(* npc_freeAll leaves no record, so nothing live.                          *)
(***************************************************************************)
Allocations(log) ==
    {k \in 1..Len(log) : log[k].fn \in {"strdup", "gl_dupTexture", "gl_newImage"}}

Releases(log) ==
    {k \in 1..Len(log) : log[k].fn \in {"free", "gl_freeTexture"}}

\* the strings and the image a record owns
Owned(npc) ==
    {<<npc.id, "name">>, <<npc.id, "portrait">>, <<npc.id, "desc">>}
    \cup (IF npc.type = NPC_TYPE_MISSION THEN {<<npc.id, "u.m.func">>}
          ELSE IF npc.type = NPC_TYPE_EVENT THEN {<<npc.id, "u.e.func">>}
          ELSE {})

OwnedBy(S) == UNION {Owned(x) : x \in S}

Entering == {x \in Records(npc_array') : WithId(npc_array, x.id) = {}}
Leaving == {x \in Records(npc_array) : WithId(npc_array', x.id) = {}}

C17_OwnershipStep ==
    /\ Cardinality(Allocations(calls')) = Cardinality(OwnedBy(Entering))
    /\ {<<calls'[k].id, calls'[k].what>> : k \in Releases(calls')} = OwnedBy(Leaving)
    /\ Cardinality(Releases(calls')) = Cardinality(OwnedBy(Leaving))
    /\ op' = "npc_freeAll" => (~fault' /\ npc_array' = <<>>)

C17_ExactOwnership == [][C17_OwnershipStep]_vars

\* C17 while the player is landed: the statement holds there
C17_ExactOwnershipLanded == [][landed => C17_OwnershipStep]_vars

(***************************************************************************)
(* C19: in every state every record is a giver, a mission NPC or an event  *)
(* NPC; no step changes the type of a record that stays in the collection; *)
(* and neither warning of the invalid-type branches ("Unknown NPC type!"   *)
(* of npc_approach, "Freeing NPC of invalid type." of npc_free) is ever    *)
(* raised, so npc_approach never returns -1 for a record's type and        *)
(* npc_free always releases the type-specific data.                        *)
(***************************************************************************)
C19_ValidTypes ==
    /\ \A k \in 1..Len(npc_array) :
          npc_array[k].type \in {NPC_TYPE_GIVER, NPC_TYPE_MISSION, NPC_TYPE_EVENT}
    /\ CallsTo(calls, "WARN") = {}
    /\ \A i \in Indices, r \in AcceptOutcomes :
          \A o \in npc_approach_on(Reg, player_missions, i, r) :
             CallsTo(o.out.log, "WARN") = {}
    /\ \A k \in 1..Len(npc_array) : CallsTo(npc_free(npc_array[k]), "WARN") = {}

C19_TypeStep ==
    \A x \in Records(npc_array), y \in Records(npc_array') :
       x.id = y.id => x.type = y.type

C19_KindsFixed == []C19_ValidTypes /\ [][C19_TypeStep]_vars

\* the sort has moved records of all three kinds
C19_Witness ==
    /\ op = "npc_generate"
    /\ {npc_array[k].type : k \in 1..Len(npc_array)}
          = {NPC_TYPE_GIVER, NPC_TYPE_MISSION, NPC_TYPE_EVENT}
    /\ npc_array[1].type = NPC_TYPE_GIVER
    /\ npc_array[1].id = 3

(***************************************************************************)
(* C18: npc_approach is safe when its collaborator calls back.  When       *)
(* npc_approach is called on a giver at index i with a free slot, the      *)
(* script run by mission_accept makes one call of npc_add_mission,         *)
(* npc_add_event, npc_rm_mission or npc_rm_event, and mission_accept       *)
(* returns 0, 2 or -1, then npc_approach returns 1, the giver that was at  *)
(* index i is released and is no longer in the collection, and the         *)
(* collection is what the script's call left, without that giver: no other *)
(* record is released or removed.                                          *)
(***************************************************************************)
\* the script's call leaves the giver where npc points
Unmoved(i, cb) ==
    \A c \in CallbackOn(Reg, cb, landed) :
       /\ Len(c.reg.array) <= Len(npc_array)
       /\ i + 1 <= Len(c.reg.array)
       /\ c.reg.array[i + 1] = npc_array[i + 1]

C18_ReentrantStep(unmovedOnly) ==
    op' = "npc_approach" =>
       \A i \in Indices, r \in {0, 2, -1}, cb \in Callbacks :
          (/\ IsAt(i, NPC_TYPE_GIVER)
           /\ ~SlotsFull
           /\ unmovedOnly => Unmoved(i, cb)
           /\ npc_approach_calling_back(i, r, cb)) =>
             LET giver == npc_array[i + 1]
             IN  /\ ~fault'
                 /\ ret' = 1
                 /\ WithId(npc_array', giver.id) = {}
                 /\ Times(calls', "free", giver.id, "name") = 1
                 /\ Times(calls', "gl_freeTexture", giver.id, "portrait") = 1
                 /\ Times(calls', "free", giver.id, "desc") = 1
                 /\ \E c \in CallbackOn(Reg, cb, landed) :
                       /\ npc_array' = Without(c.reg.array, giver.id)
                       /\ \A x \in Records(c.reg.array) :
                             x.id # giver.id =>
                                \A k \in Releases(calls') : calls'[k].id # x.id

C18_ReentrantSafe == [][C18_ReentrantStep(FALSE)]_vars

\* C18 for the scripts whose call neither grows the array nor moves the
\* giver: the statement holds there
C18_ReentrantSafeUnmoved == [][C18_ReentrantStep(TRUE)]_vars

====
